---------------------------- MODULE Spec2Model ----------------------------
(***************************************************************************)
(* Object-storage HTTP service (FastAPI): upload, web-optimized upload,    *)
(* listing, read by filename and deletion of files whose metadata lives in *)
(* a relational table (FileRecord) and whose bytes live under the upload   *)
(* directory.                                                              *)
(*                                                                         *)
(* The handlers of app/api/routes.py are coroutines: each is modelled as a *)
(* sequence of atomic steps cut at the awaits where the database or the    *)
(* filesystem is touched, so that requests of different clients interleave *)
(* exactly where the event loop lets them.                                 *)
(*                                                                         *)
(* routes.py imports create_file, get_file_by_id, get_file_by_filename,    *)
(* get_files_paginated and delete_file from app.service.crud; crud.py      *)
(* defines them as the static methods FileCRUD.create_file_record,         *)
(* FileCRUD.get_file_by_id, FileCRUD.get_file_by_filename,                 *)
(* FileCRUD.get_files_paginated and FileCRUD.delete_file_record, which is  *)
(* what the operators of those names model.                                *)
(***************************************************************************)
EXTENDS Integers, Sequences, FiniteSets, TLC

VARIABLES
    disk,       \* the filesystem under upload_directory: path -> bytes
    db,         \* table file_records: the set of committed FileRecord rows
    uploads,    \* number of upload requests that generated a filename so far
    clock,      \* datetime.utcnow(), as a logical time
    pc,         \* per client: the position of its request's coroutine
    loc,        \* per client: the locals of its request's coroutine
    resp,       \* the response the step just taken sent, if it completed a request
    hdr,        \* headers of the request in hand (SpecAuth)
    img         \* last image or video resize computed (SpecImage, SpecVideo)

vars == <<disk, db, uploads, clock, pc, loc, resp, hdr, img>>

\* ------------------------------------------------------------------ bounds

\* Upload requests that get as far as generating a filename.
MaxUploads == 1

\* The pages a client asks GET /list for.
MaxPage == 2

\* The records the crud operations are checked on.
MaxRecords == 2

\* Upload requests of the behaviours that hold uploads only.
MaxRacing == 2

\* ------------------------------------------------------- program constants

\* Settings.max_file_size_mb
max_file_size_mb == 10

\* max_width and max_height of POST /upload/web: Query(..., ge=100, le=4000)
MinBox == 100

MaxBox == 4000

\* settings.max_file_size_mb * 1024 * 1024
MaxBytes == max_file_size_mb * 1024 * 1024

\* Settings.upload_directory
upload_directory == "uploads"

\* Settings.api_key (a required setting; any non-empty secret)
api_key == "secret"

None == "None"

Procs == {"c1", "c2"}

\* ----------------------------------------------------------------- inputs

Mime(major, minor) == [major |-> major, minor |-> minor]

Name(stem, ext) == [stem |-> stem, ext |-> ext]

\* File contents: what the bytes are (the raw upload, a truncated write, an
\* encoder's output), which upload they derive from, and how many they are.
Bytes(kind, source, len) == [kind |-> kind, source |-> source, len |-> len]

\* The multipart parts a client may send: name, declared content type, bytes.
Parts ==
    { [filename |-> Name("a", ".png"), content_type |-> Mime("image", "png"),
       content |-> Bytes("raw", "png", 3)],
      [filename |-> Name("b", ".mp4"), content_type |-> Mime("video", "mp4"),
       content |-> Bytes("raw", "mp4", 4)],
      [filename |-> Name("d", ".png"), content_type |-> Mime("image", "png"),
       content |-> Bytes("raw", "bigpng", MaxBytes + 1)] }

\* UploadFile objects: a part together with UploadFile.size, which is an
\* Optional[int]: << >> is None, <<n>> the byte count n the framework reports.
UploadFiles ==
    UNION { { [filename |-> q.filename, content_type |-> q.content_type,
               content |-> q.content, size |-> s] :
                 s \in {<< >>, <<q.content.len>>} } : q \in Parts }

\* The UploadFile objects whose size is the byte count of the part, as the
\* multipart parser sets it.
SizedUploadFiles == {file \in UploadFiles : file.size # << >>}

\* What a failed write, copy or encode may leave behind at its output path.
Partial(content) == Bytes("partial", content.source, content.len - 1)

\* ------------------------------------------------------------- file_utils

\* get_file_type_from_mime: prefix match on image/, video/, audio/, then the
\* document allowlist, else other.
DocumentMimes ==
    { Mime("application", "pdf"), Mime("application", "msword"),
      Mime("text", "plain"), Mime("text", "csv"),
      Mime("application", "json"), Mime("application", "xml") }

get_file_type_from_mime(mime_type) ==
    IF mime_type.major = "image" THEN "image"
    ELSE IF mime_type.major = "video" THEN "video"
    ELSE IF mime_type.major = "audio" THEN "audio"
    ELSE IF mime_type \in DocumentMimes THEN "document"
    ELSE "other"

\* A uuid4 that returns the same value to every request.
SameToken(request, role) == <<1, role>>

\* uuid.uuid4(): a value no other call returns, named by the upload request
\* that draws it and by what that request draws it for.
uuid4(request, role) == <<request, role>>

\* generate_unique_filename: os.path.splitext keeps the extension, the stem
\* becomes str(uuid.uuid4()); u is the value uuid4() returned.
generate_unique_filename(original_filename, u) ==
    [prefix |-> "", uuid |-> u, ext |-> original_filename.ext]

\* f"web_{unique_filename}"
WebName(unique_filename) == [unique_filename EXCEPT !.prefix = "web_"]

\* create_file_path: os.path.join(base_dir, file_type.value, filename)
create_file_path(base_dir, file_type, filename) ==
    <<base_dir, file_type, filename>>

\* -------------------------------------------------------------- web_utils

is_optimizable_image(mime_type) ==
    mime_type \in { Mime("image", "jpeg"), Mime("image", "jpg"),
                    Mime("image", "png"), Mime("image", "bmp"),
                    Mime("image", "tiff"), Mime("image", "webp") }

is_optimizable_video(mime_type) == mime_type.major = "video"

\* What the environment does to one optimizer call: whether the ffmpeg
\* version probe succeeds, how the encode (or the copy) ends, and whether a
\* failed ffmpeg run or copy leaves bytes at the output path.
OptEnv ==
    { e \in [ffmpeg : BOOLEAN, result : {"ok", "error", "timeout"},
             leaves : {"none", "partial"}] :
        e.result = "ok" => e.leaves = "none" }

\* The optimizer calls that differ for a MIME type: the image optimizer
\* runs no ffmpeg, has no timeout and leaves no output when it fails.
OptEnvFor(mime_type) ==
    IF mime_type.major = "image"
    THEN {e \in OptEnv : e.ffmpeg /\ e.result # "timeout" /\ e.leaves = "none"}
    ELSE OptEnv

\* The encoder's output for the given input bytes.
Encoded(format, content) == Bytes(format, content.source, 1)

\* ------------------------------------------------------------- filesystem

\* os.path.exists
Exists(d, path) == path \in DOMAIN d

\* open(path, 'wb') + write
WriteFile(d, path, content) == (path :> content) @@ d

\* os.remove
RemoveFile(d, path) == [q \in (DOMAIN d) \ {path} |-> d[q]]

\* os.path.getsize
getsize(d, path) == d[path].len

Leftover(d, output_path, content, e) ==
    IF e.leaves = "partial" THEN WriteFile(d, output_path, Partial(content))
    ELSE d

\* optimize_image_for_web: every exception of the decode, resize and save is
\* caught and returned as (False, str(e)); Image.save removes the file it
\* created when the encoder raises.
optimize_image_for_web(d, input_path, output_path, e) ==
    IF e.result = "ok"
    THEN [success |-> TRUE, error_msg |-> None,
          disk |-> WriteFile(d, output_path, Encoded("jpeg", d[input_path]))]
    ELSE [success |-> FALSE, error_msg |-> "image error", disk |-> d]

FFmpegNotAvailable == "FFmpeg not available - file copied without optimization"

\* optimize_video_for_web: without ffmpeg the input is copied (shutil.copy2)
\* and the call reports success with a message; with ffmpeg the exit status
\* or the timeout decides.
optimize_video_for_web(d, input_path, output_path, e) ==
    IF ~e.ffmpeg
    THEN IF e.result = "ok"
         THEN [success |-> TRUE,
               error_msg |-> FFmpegNotAvailable,
               disk |-> WriteFile(d, output_path, d[input_path])]
         ELSE [success |-> FALSE, error_msg |-> "copy error",
               disk |-> Leftover(d, output_path, d[input_path], e)]
    ELSE IF e.result = "ok"
         THEN [success |-> TRUE, error_msg |-> None,
               disk |-> WriteFile(d, output_path, Encoded("mp4", d[input_path]))]
         ELSE IF e.result = "timeout"
         THEN [success |-> FALSE, error_msg |-> "Video optimization timed out",
               disk |-> Leftover(d, output_path, d[input_path], e)]
         ELSE [success |-> FALSE, error_msg |-> "FFmpeg error",
               disk |-> Leftover(d, output_path, d[input_path], e)]

\* ------------------------------------------------------------------- crud

\* FileRecord: id and created_at come from their default factories.
FileRecord(id, filename, original_filename, file_type, mime_type, file_size, file_path, is_optimized, optimized_path, created_at) ==
    [id |-> id, filename |-> filename, original_filename |-> original_filename,
     file_type |-> file_type, mime_type |-> mime_type, file_size |-> file_size,
     file_path |-> file_path, is_optimized |-> is_optimized,
     optimized_path |-> optimized_path, created_at |-> created_at]

\* FileCRUD.create_file_record: session.add + commit
create_file_record(table, record) == table \cup {record}

\* FileCRUD.get_file_by_filename: scalar_one_or_none
get_file_by_filename(table, filename) ==
    LET rows == {r \in table : r.filename = filename}
    IN  IF rows = {} THEN None ELSE CHOOSE r \in rows : TRUE

\* FileCRUD.get_file_by_id: scalar_one_or_none
get_file_by_id(table, file_id) ==
    LET rows == {r \in table : r.id = file_id}
    IN  IF rows = {} THEN None ELSE CHOOSE r \in rows : TRUE

\* delete_file_record that answers True and deletes nothing.
DeleteNothing(table, file_id) == [ok |-> TRUE, table |-> table]

\* FileCRUD.delete_file_record: the row, when found, is deleted and True is
\* returned; otherwise False.
delete_file_record(table, file_id) ==
    LET rows == {r \in table : r.id = file_id}
    IN  IF rows # {} THEN [ok |-> TRUE, table |-> table \ rows]
        ELSE [ok |-> FALSE, table |-> table]

\* FileCRUD.update_file_optimization: the row, when found, gets is_optimized
\* True and the given optimized_path.
update_file_optimization(table, file_id, optimized_path) ==
    LET rows == {r \in table : r.id = file_id}
    IN  (table \ rows) \cup
        {[r EXCEPT !.is_optimized = TRUE, !.optimized_path = optimized_path] :
            r \in rows}

\* ----------------------------------------------------------------- models

\* UploadResponse: the fields without a default are required; constructing
\* the model without one of them raises a validation error.
UploadResponseRequired ==
    {"id", "filename", "original_filename", "file_type", "mime_type",
     "file_size", "is_optimized", "url", "message"}

\* The keyword arguments both upload handlers pass to UploadResponse(...).
UploadResponsePassed ==
    {"id", "filename", "original_filename", "file_type", "mime_type",
     "file_size", "url", "message"}

\* UploadResponse(**kwargs) validates
UploadResponseValid(kwargs) == UploadResponseRequired \subseteq kwargs

\* -------------------------------------------------------------- responses

Response(op, status, detail, info) ==
    [op |-> op, status |-> status, detail |-> detail, info |-> info]

\* A response that carries nothing besides its status and detail.
NoInfo == [cause |-> "none"]

NoResp == Response("none", 0, "", NoInfo)

\* The locals of a client that runs no handler.
NoLocals == [op |-> "idle"]

\* The request of client p ends with response r.
Reply(p, r) ==
    /\ resp' = r
    /\ pc' = [pc EXCEPT ![p] = "idle"]
    /\ loc' = [loc EXCEPT ![p] = NoLocals]

\* Client p's coroutine moves on to step s with locals l; nothing is sent.
Goto(p, s, l) ==
    /\ pc' = [pc EXCEPT ![p] = s]
    /\ loc' = [loc EXCEPT ![p] = l]
    /\ resp' = NoResp

\* The `except Exception` clean-up of the upload handlers: for each path in
\* turn, os.remove it when it exists. failAt is the position of the os.remove
\* call that raises (0: none does); an exception raised there leaves the
\* handler, so the paths after it are not visited.
RECURSIVE CleanUp(_, _, _, _)
CleanUp(d, paths, i, failAt) ==
    IF i > Len(paths) THEN [disk |-> d, raised |-> FALSE]
    ELSE IF Exists(d, paths[i])
         THEN IF failAt = i THEN [disk |-> d, raised |-> TRUE]
              ELSE CleanUp(RemoveFile(d, paths[i]), paths, i + 1, failAt)
         ELSE CleanUp(d, paths, i + 1, failAt)

\* The response of an upload handler whose try block raised at `cause`: the
\* HTTPException(500, "Upload failed: ...") of the except clause, unless the
\* clean-up itself raised, which the server reports as a bare 500.
UploadError(op, cause, unique_filename, cleaned) ==
    Response(op, 500,
             IF cleaned.raised THEN "Internal Server Error" ELSE "Upload failed",
             [cause |-> cause, filename |-> unique_filename,
              rollback_raised |-> cleaned.raised])

\* ---------------------------------------------------------- POST /upload

\* `file.size and file.size > settings.max_file_size_mb * 1024 * 1024`
TooLarge(file) ==
    file.size # << >> /\ file.size[1] # 0 /\ file.size[1] > MaxBytes

TooLargeResponse(op) == Response(op, 413, "File too large", NoInfo)

\* The locals both upload handlers hold once the names are generated.
UploadLocals(file, unique_filename) ==
    [filename |-> file.filename, mime_type |-> file.content_type,
     content |-> file.content, unique_filename |-> unique_filename]

FileTypeOf(l) == get_file_type_from_mime(l.mime_type)

OriginalPath(l) ==
    create_file_path(upload_directory, FileTypeOf(l), l.unique_filename)

WebPath(l) ==
    create_file_path(upload_directory, FileTypeOf(l), WebName(l.unique_filename))

\* `async with aiofiles.open(path, 'wb') as f: content = await file.read();
\* await f.write(content)`: the bytes are written, or the open raises
\* (nothing on disk), or the write raises (a partial file on disk).
SaveOriginal(d, l, at) ==
    IF at = "open" THEN d
    ELSE IF at = "write" THEN WriteFile(d, OriginalPath(l), Partial(l.content))
    ELSE WriteFile(d, OriginalPath(l), l.content)

\* upload_file up to the commit of `await create_file(...)`: the size check,
\* the names, the write of the file, the record. An exception at the open,
\* the write or the commit runs the except clause. The path is known to no
\* other request before the commit, so the steps up to it are one step.
\* `bound` is the number of uploads a behaviour holds.
UploadStoreWithin(p, file, bound) ==
    LET l == UploadLocals(file, generate_unique_filename(file.filename,
                                                         uuid4(uploads + 1, "name")))
        record == FileRecord(uuid4(uploads + 1, "id"), l.unique_filename,
                             l.filename, FileTypeOf(l), l.mime_type,
                             l.content.len, OriginalPath(l), FALSE, None, clock)
    IN  /\ uploads < bound
        /\ uploads' = uploads + 1
        /\ UNCHANGED clock
        /\ \E at \in {"none", "open", "write", "commit"}, failAt \in 0..1 :
             LET written == SaveOriginal(disk, l, at)
                 cleaned == CleanUp(written, <<OriginalPath(l)>>, 1, failAt)
             IN  IF at = "none"
                 THEN /\ disk' = written
                      /\ db' = create_file_record(db, record)
                      /\ Goto(p, "upload_respond", l)
                 ELSE /\ disk' = cleaned.disk
                      /\ db' = db
                      /\ Reply(p, UploadError("upload", at, l.unique_filename,
                                              cleaned))

UploadStore(p, file) == UploadStoreWithin(p, file, MaxUploads)

\* upload_file on one of the given files: the size check, then the upload
\* proper.
UploadWithin(p, files, bound) ==
    /\ pc[p] = "idle"
    /\ \E file \in files :
          IF TooLarge(file)
          THEN /\ Reply(p, TooLargeResponse("upload"))
               /\ UNCHANGED <<disk, db, uploads, clock>>
          ELSE UploadStoreWithin(p, file, bound)

Upload(p) == UploadWithin(p, UploadFiles, MaxUploads)

\* upload_file: `return UploadResponse(...)` inside the try block; when the
\* constructor raises, the except clause removes the file and answers 500.
UploadRespond(p) ==
    /\ pc[p] = "upload_respond"
    /\ LET l == loc[p]
       IN  \E failAt \in 0..1 :
             IF UploadResponseValid(UploadResponsePassed)
             THEN /\ Reply(p, Response("upload", 200, "File uploaded successfully",
                                       [filename |-> l.unique_filename,
                                        file_size |-> l.content.len]))
                  /\ UNCHANGED <<disk, db, uploads, clock>>
             ELSE LET cleaned == CleanUp(disk, <<OriginalPath(l)>>, 1, failAt)
                  IN  /\ disk' = cleaned.disk
                      /\ Reply(p, UploadError("upload", "response",
                                              l.unique_filename, cleaned))
                      /\ UNCHANGED <<db, uploads, clock>>

\* ------------------------------------------------------ POST /upload/web

\* The optimizer the handler picks for the MIME type.
Optimize(d, l, e) ==
    IF is_optimizable_image(l.mime_type)
    THEN optimize_image_for_web(d, OriginalPath(l), WebPath(l), e)
    ELSE optimize_video_for_web(d, OriginalPath(l), WebPath(l), e)

\* `if not success: optimized_path = original_path`
OptimizedPath(l, success) == IF success THEN WebPath(l) ELSE OriginalPath(l)

\* upload_file_web_optimized from the names to the commit of
\* `await create_file(...)`: the write of the original, the optimizer call,
\* the fallback to the original, os.path.getsize, the record. An exception
\* at the open, the write or the commit runs the except clause, whose loop
\* visits [original_path, optimized_path] with optimized_path as it then is.
\* `bound` is the number of uploads a behaviour holds.
WebStoreWithin(p, file, bound) ==
    LET l == UploadLocals(file, generate_unique_filename(file.filename,
                                                         uuid4(uploads + 1, "name")))
    IN  /\ uploads < bound
        /\ uploads' = uploads + 1
        /\ UNCHANGED clock
        /\ \E at \in {"none", "open", "write", "commit"} :
             LET written == SaveOriginal(disk, l, at)
             IN  IF at \in {"open", "write"}
                 THEN \E failAt \in 0..1 :
                      LET cleaned == CleanUp(written, <<OriginalPath(l), WebPath(l)>>,
                                             1, failAt)
                      IN  /\ disk' = cleaned.disk
                          /\ db' = db
                          /\ Reply(p, UploadError("web", at, l.unique_filename,
                                                  cleaned))
                 ELSE \E e \in OptEnvFor(l.mime_type) :
                      LET o == Optimize(written, l, e)
                          optimized_path == OptimizedPath(l, o.success)
                          final_size == getsize(o.disk, optimized_path)
                          record == FileRecord(uuid4(uploads + 1, "id"),
                                               l.unique_filename, l.filename,
                                               FileTypeOf(l), l.mime_type,
                                               final_size, optimized_path,
                                               FALSE, None, clock)
                      IN  IF at = "none"
                          THEN /\ disk' = o.disk
                               /\ db' = create_file_record(db, record)
                               /\ Goto(p, "web_finish",
                                       [filename |-> l.filename,
                                        mime_type |-> l.mime_type,
                                        content |-> l.content,
                                        unique_filename |-> l.unique_filename,
                                        success |-> o.success,
                                        error_msg |-> o.error_msg,
                                        final_size |-> final_size])
                          ELSE \E failAt \in 0..2 :
                               LET cleaned ==
                                     CleanUp(o.disk,
                                             <<OriginalPath(l), optimized_path>>,
                                             1, failAt)
                               IN  /\ disk' = cleaned.disk
                                   /\ db' = db
                                   /\ Reply(p, UploadError("web", at,
                                                l.unique_filename, cleaned))

WebStore(p, file) == WebStoreWithin(p, file, MaxUploads)

\* upload_file_web_optimized on one of the given files: the video_quality
\* check, the size check and the optimizable-type check, then the upload
\* proper.
WebUploadWithin(p, files, bound) ==
    /\ pc[p] = "idle"
    /\ \E video_quality \in {"medium", "ultra"} :
          IF video_quality \notin {"low", "medium", "high"}
          THEN /\ Reply(p, Response("web", 400, "video_quality must be one of: low, medium, high", NoInfo))
               /\ UNCHANGED <<disk, db, uploads, clock>>
          ELSE \E file \in files :
               IF TooLarge(file)
               THEN /\ Reply(p, TooLargeResponse("web"))
                    /\ UNCHANGED <<disk, db, uploads, clock>>
               ELSE IF ~(is_optimizable_image(file.content_type)
                         \/ is_optimizable_video(file.content_type))
               THEN /\ Reply(p, Response("web", 400, "Web optimization only supports images and videos", NoInfo))
                    /\ UNCHANGED <<disk, db, uploads, clock>>
               ELSE WebStoreWithin(p, file, bound)

WebUpload(p) == WebUploadWithin(p, UploadFiles, MaxUploads)

\* upload_file_web_optimized after the commit: the original is removed when
\* the optimization succeeded, then UploadResponse(...) is constructed; an
\* exception of either runs the except clause.
WebFinish(p) ==
    /\ pc[p] = "web_finish"
    /\ \E rm \in {"ok", "raises"}, failAt \in 0..2 :
         LET l == loc[p]
             optimized_path == OptimizedPath(l, l.success)
             removes == l.success /\ optimized_path # OriginalPath(l)
             raised == removes /\ rm = "raises"
             d1 == IF removes /\ ~raised THEN RemoveFile(disk, OriginalPath(l))
                   ELSE disk
             cleaned == CleanUp(d1, <<OriginalPath(l), optimized_path>>,
                                1, failAt)
         IN  /\ UNCHANGED <<db, uploads, clock>>
             /\ IF ~raised /\ UploadResponseValid(UploadResponsePassed)
                THEN /\ disk' = d1
                     /\ Reply(p, Response("web", 200,
                                 IF l.success
                                 THEN "File uploaded and optimized for web"
                                 ELSE "File uploaded (optimization failed)",
                                 [filename |-> l.unique_filename,
                                  file_size |-> l.final_size]))
                ELSE /\ disk' = cleaned.disk
                     /\ Reply(p, UploadError("web",
                                 IF raised THEN "remove_original" ELSE "response",
                                 l.unique_filename, cleaned))

\* ------------------------------------------------------------------ DELETE

\* A filename no upload ever generated.
UnknownFilename ==
    [prefix |-> "", uuid |-> uuid4(0, "name"), ext |-> ".png"]

\* delete_file_by_id: `await get_file_by_id(session, file_id)` and the 404.
DeleteByIdStart(p) ==
    /\ pc[p] = "idle"
    /\ \E file_id \in {r.id : r \in db} \cup {uuid4(0, "id")} :
         LET file_record == get_file_by_id(db, file_id)
         IN  IF file_id \notin {r.id : r \in db}
             THEN Reply(p, Response("delete_by_id", 404, "File not found",
                                    [file_id |-> file_id]))
             ELSE Goto(p, "delete_remove",
                       [op |-> "delete_by_id", file_record |-> file_record,
                        remove_raised |-> FALSE])
    /\ UNCHANGED <<disk, db, uploads, clock>>

\* delete_file_by_filename: `await get_file_by_filename(session, filename)`
\* and the 404.
DeleteByFilenameStart(p) ==
    /\ pc[p] = "idle"
    /\ \E filename \in {r.filename : r \in db} \cup {UnknownFilename} :
         LET file_record == get_file_by_filename(db, filename)
         IN  IF filename \notin {r.filename : r \in db}
             THEN Reply(p, Response("delete_by_filename", 404, "File not found",
                                    [filename |-> filename]))
             ELSE Goto(p, "delete_remove",
                       [op |-> "delete_by_filename", file_record |-> file_record,
                        remove_raised |-> FALSE])
    /\ UNCHANGED <<disk, db, uploads, clock>>

\* A removal of the file whose error ends the request with a server error.
DeleteRemoveEscalates(p) ==
    /\ pc[p] = "delete_remove"
    /\ \E rm \in {"ok", "raises"} :
         LET l == loc[p]
             path == l.file_record.file_path
         IN  IF Exists(disk, path) /\ rm = "raises"
             THEN /\ disk' = disk
                  /\ Reply(p, Response(l.op, 500, "Internal Server Error", NoInfo))
             ELSE /\ disk' = RemoveFile(disk, path)
                  /\ Goto(p, "delete_record", l)
    /\ UNCHANGED <<db, uploads, clock>>

\* Both delete handlers: `if os.path.exists(path): try: os.remove(path)
\* except Exception: print(...)`; an error of the removal is swallowed.
DeleteRemove(p) ==
    /\ pc[p] = "delete_remove"
    /\ \E rm \in {"ok", "raises"} :
         LET l == loc[p]
             path == l.file_record.file_path
         IN  IF Exists(disk, path)
             THEN IF rm = "ok"
                  THEN /\ disk' = RemoveFile(disk, path)
                       /\ Goto(p, "delete_record", l)
                  ELSE /\ disk' = disk
                       /\ Goto(p, "delete_record",
                               [l EXCEPT !.remove_raised = TRUE])
             ELSE /\ disk' = disk
                  /\ Goto(p, "delete_record", l)
    /\ UNCHANGED <<db, uploads, clock>>

\* The byte length of the upload a record was made from.
PartSize(r) ==
    (CHOOSE q \in Parts : q.filename = r.original_filename).content.len

\* Both delete handlers: `success = await delete_file(session, id)` and the
\* response; a commit that raises leaves the handler as a server error.
DeleteRecord(p) ==
    /\ pc[p] = "delete_record"
    /\ \E commit \in {"ok", "raises"} :
         LET l == loc[p]
             deleted == delete_file_record(db, l.file_record.id)
             info == [filename |-> l.file_record.filename,
                      file_id |-> l.file_record.id,
                      file_path |-> l.file_record.file_path,
                      file_size |-> PartSize(l.file_record),
                      remove_raised |-> l.remove_raised]
         IN  IF deleted.ok /\ commit = "raises"
             THEN /\ db' = db
                  /\ Reply(p, Response(l.op, 500, "Internal Server Error", info))
             ELSE IF deleted.ok
             THEN /\ db' = deleted.table
                  /\ Reply(p, Response(l.op, 200, "File deleted successfully", info))
             ELSE /\ db' = db
                  /\ Reply(p, Response(l.op, 500,
                                       "Failed to delete file from database", info))
    /\ UNCHANGED <<disk, uploads, clock>>

\* ------------------------------------------------- GET /files/{filename}

\* The filenames a client may ask for: every name an upload may have been
\* given, and one that none was.
Filenames ==
    {UnknownFilename} \cup
    {generate_unique_filename(q.filename, uuid4(n, "name")) :
        q \in Parts, n \in 1..uploads}

\* get_file: `await get_file_by_filename(session, filename)` and the 404.
GetLookup(p) ==
    /\ pc[p] = "idle"
    /\ \E filename \in Filenames :
         LET file_record == get_file_by_filename(db, filename)
         IN  IF filename \notin {r.filename : r \in db}
             THEN Reply(p, Response("get", 404, "File not found", NoInfo))
             ELSE Goto(p, "get_check", [file_record |-> file_record])
    /\ UNCHANGED <<disk, db, uploads, clock>>

\* get_file: the os.path.exists check and `return FileResponse(...)`.
GetCheck(p) ==
    /\ pc[p] = "get_check"
    /\ LET l == loc[p]
       IN  IF ~Exists(disk, l.file_record.file_path)
           THEN Reply(p, Response("get", 404, "File not found on disk",
                                  [filename |-> l.file_record.filename]))
           ELSE Goto(p, "get_send", l)
    /\ UNCHANGED <<disk, db, uploads, clock>>

\* The FileResponse is sent: the file is opened and streamed with the
\* record's mime_type and original_filename; a file that is gone by then is
\* an exception outside the handler.
GetSend(p) ==
    /\ pc[p] = "get_send"
    /\ LET l == loc[p]
           path == l.file_record.file_path
       IN  IF Exists(disk, path)
           THEN Reply(p, Response("get", 200, "OK",
                                  [filename |-> l.file_record.filename,
                                   body |-> disk[path],
                                   media_type |-> l.file_record.mime_type,
                                   download_name |-> l.file_record.original_filename]))
           ELSE Reply(p, Response("get", 500, "Internal Server Error",
                                  [filename |-> l.file_record.filename]))
    /\ UNCHANGED <<disk, db, uploads, clock>>

\* ---------------------------------------------------------- specification

\* ------------------------------------------------------ image optimizers

\* The modes with has_transparency: `img.mode in ('RGBA', 'LA', 'P')`.
TransparentModes == {"RGBA", "LA", "P"}

\* The EXIF orientations ImageOps.exif_transpose answers with a transposition
\* that exchanges width and height (transpose, rotate 270, transverse,
\* rotate 90).
ExchangingOrientations == {5, 6, 7, 8}

\* max(max_width / original_width, max_height / original_height) as the
\* fraction <<numerator, denominator>>.
RatioMax(original_width, original_height, max_width, max_height) ==
    IF max_width * original_height >= max_height * original_width
    THEN <<max_width, original_width>>
    ELSE <<max_height, original_height>>

\* `ratio = min(max_width / original_width, max_height / original_height)`
\* as the fraction <<numerator, denominator>>; the two quotients are floats,
\* and equal fractions divide to equal floats.
Ratio(original_width, original_height, max_width, max_height) ==
    IF max_width * original_height <= max_height * original_width
    THEN <<max_width, original_width>>
    ELSE <<max_height, original_height>>

\* `int(side * ratio)` in float arithmetic: the floor of the exact product
\* when that is not an integer (the rounding error is far below 1 /
\* denominator); when the exact product is an integer the float product is
\* that integer or falls just below it, as int(161 * (100 / 161)) = 99.
IntOfProduct(side, ratio) ==
    LET exact == (side * ratio[1]) \div ratio[2]
    IN  IF (side * ratio[1]) % ratio[2] = 0 THEN {exact, exact - 1} ELSE {exact}

\* A resize that is applied whatever the ratio, enlarging the images smaller
\* than the box.
NewSizesUnclamped(original_width, original_height, max_width, max_height) ==
    LET ratio == Ratio(original_width, original_height, max_width, max_height)
    IN  IntOfProduct(original_width, ratio) \X IntOfProduct(original_height, ratio)

\* The sizes `img.resize((new_width, new_height), ...)` may be called with
\* when ratio < 1, and the unchanged size otherwise.
NewSizes(original_width, original_height, max_width, max_height) ==
    LET ratio == Ratio(original_width, original_height, max_width, max_height)
    IN  IF ratio[1] < ratio[2]
        THEN IntOfProduct(original_width, ratio) \X IntOfProduct(original_height, ratio)
        ELSE {<<original_width, original_height>>}

\* ImageOps.exif_transpose: the size of the image it returns.
exif_transpose(size, orientation, has_exif) ==
    IF has_exif /\ orientation \in ExchangingOrientations
    THEN <<size[2], size[1]>>
    ELSE size

\* What an optimizer returns for the resized size `size`: resize raises on an
\* empty size, and the except clause answers False.
Saved(i, fn, size, has_exif) ==
    IF size[1] < 1 \/ size[2] < 1
    THEN [i EXCEPT !.fn = fn, !.success = FALSE]
    ELSE LET out == exif_transpose(size, i.orientation, has_exif)
         IN  [i EXCEPT !.fn = fn, !.success = TRUE,
                       !.out_width = out[1], !.out_height = out[2]]

\* web_utils.optimize_image_for_web on the image and the box in i: the
\* results it may return. The image flattened onto Image.new('RGB', ...)
\* carries no EXIF data; convert and resize keep it.
optimize_image_for_web_size(i) ==
    LET has_transparency == i.mode \in TransparentModes
        has_exif == ~(has_transparency /\ ~i.preserve_alpha)
    IN  {Saved(i, "optimize_image_for_web", size, has_exif) :
            size \in NewSizes(i.width, i.height, i.max_width, i.max_height)}

\* ImageOptimizer.optimize_for_web on the image and the box in i.
optimize_for_web(i) ==
    LET has_exif == i.mode \notin TransparentModes
    IN  {Saved(i, "optimize_for_web", size, has_exif) :
            size \in NewSizes(i.width, i.height, i.max_width, i.max_height)}

\* The sides of the source images.
ImageSides == {1, MinBox \div 2, MinBox + 61, 2 * (MinBox + 61), MaxBox + 1}

\* The bounds of max_width and max_height: Query(..., ge=100, le=4000).
BoxSides == {MinBox, 2 * MinBox, MaxBox}

\* An image and a box, no optimizer having run.
ImageInputs ==
    [fn : {"input"}, width : ImageSides, height : ImageSides,
     mode : {"RGB", "RGBA"}, orientation : {1, 6},
     max_width : BoxSides, max_height : BoxSides, preserve_alpha : BOOLEAN,
     success : {FALSE}, out_width : {0}, out_height : {0}]

OptimizeImageForWeb ==
    /\ img.fn = "input"
    /\ img' \in optimize_image_for_web_size(img)
    /\ UNCHANGED <<disk, db, uploads, clock, pc, loc, resp, hdr>>

OptimizeForWeb ==
    /\ img.fn = "input"
    /\ img' \in optimize_for_web(img)
    /\ UNCHANGED <<disk, db, uploads, clock, pc, loc, resp, hdr>>

\* ------------------------------------------------------- GET /list, crud

FileTypes == {"image", "video", "document", "audio", "other"}

\* The largest per_page GET /list accepts (Query(10, ge=1, le=100)).
MaxPerPage == 100

\* The per_page of a GET /list that names none (Query(10, ge=1, le=100)).
DefaultPerPage == 10

RECURSIVE Orderings(_)
\* The sequences that list every element of the set S once.
Orderings(S) ==
    IF S = {} THEN {<< >>}
    ELSE UNION { {<<x>> \o t : t \in Orderings(S \ {x})} : x \in S }

\* `.order_by(FileRecord.created_at.desc())`: the orders the database may
\* return the rows in; rows of equal created_at come in any order.
OrderByCreatedAtDesc(rows) ==
    {o \in Orderings(rows) :
        \A i, j \in 1..Len(o) : i < j => o[i].created_at >= o[j].created_at}

\* FileResponse(...) built from a row.
FileResponse(file) ==
    [id |-> file.id, filename |-> file.filename,
     original_filename |-> file.original_filename, file_type |-> file.file_type,
     mime_type |-> file.mime_type, file_size |-> file.file_size,
     is_optimized |-> file.is_optimized, created_at |-> file.created_at]

\* `if file_type: statement = statement.where(FileRecord.file_type ==
\* file_type)`: the rows get_files_paginated selects from. file_type None is
\* no filter.
Matching(table, file_type) ==
    IF file_type # None THEN {r \in table : r.file_type = file_type} ELSE table

\* get_files_paginated that counts the rows of the page it returns.
CountThePage(table, page, per_page, file_type, ordered) ==
    LET offset == (page - 1) * per_page
        last == IF offset + per_page < Len(ordered) THEN offset + per_page
                ELSE Len(ordered)
        files == SubSeq(ordered, offset + 1, last)
    IN  [files |-> [i \in 1..Len(files) |-> FileResponse(files[i])],
         total |-> Len(files), page |-> page, per_page |-> per_page]

\* FileCRUD.get_files_paginated, `ordered` being the order the database
\* returns the matching rows in: OFFSET (page - 1) * per_page, LIMIT per_page,
\* and the count of the matching rows.
get_files_paginated(table, page, per_page, file_type, ordered) ==
    LET offset == (page - 1) * per_page
        last == IF offset + per_page < Len(ordered) THEN offset + per_page
                ELSE Len(ordered)
        files == SubSeq(ordered, offset + 1, last)
        total == Cardinality(Matching(table, file_type))
    IN  [files |-> [i \in 1..Len(files) |-> FileResponse(files[i])],
         total |-> total, page |-> page, per_page |-> per_page]

\* list_files called with a page, a per_page and a file type among the
\* given ones: the answer is what get_files_paginated returns, kept with
\* the query it answers.
ListFilesWith(p, pages, per_pages, file_types) ==
    /\ pc[p] = "idle"
    /\ \E page \in pages, per_page \in per_pages, file_type \in file_types :
         \E ordered \in OrderByCreatedAtDesc(Matching(db, file_type)) :
            Reply(p, Response("list", 200, "",
                              [query |-> [page |-> page, per_page |-> per_page,
                                          file_type |-> file_type],
                               body |-> get_files_paginated(db, page, per_page,
                                                            file_type, ordered)]))
    /\ UNCHANGED <<disk, db, uploads, clock>>

\* list_files with the query parameters FastAPI admits: page >= 1, per_page
\* in 1..100, an optional file type.
ListFiles(p) ==
    ListFilesWith(p, 1..MaxPage, {1, MaxRecords, MaxPerPage}, FileTypes \cup {None})

\* list_files with the defaults of its query parameters: page 1, per_page
\* 10, no file type.
ListFilesDefault(p) == ListFilesWith(p, {1}, {DefaultPerPage}, {None})

\* --------------------------------------------------------------- api key

\* Optional[str] and Optional[HTTPAuthorizationCredentials]: << >> is None,
\* <<v>> the value v.
Truthy(x) == x # << >> /\ x[1] # ""

\* HTTPBearer(auto_error=False) on the Authorization header: the credentials
\* when the scheme is bearer and the token is not empty, None otherwise.
security(authorization_header) ==
    IF authorization_header = << >> THEN << >>
    ELSE IF authorization_header[1].scheme # "bearer" THEN << >>
    ELSE IF authorization_header[1].credentials = "" THEN << >>
    ELSE authorization_header

\* A verify_api_key that prefers neither header: it passes when either holds
\* the configured key.
VerifyEitherHeader(x_api_key, authorization) ==
    \/ Truthy(x_api_key) /\ x_api_key[1] = api_key
    \/ authorization # << >> /\ authorization[1].credentials = api_key

\* verify_api_key: TRUE when it returns True, FALSE when it raises the 401.
verify_api_key(x_api_key, authorization) ==
    LET key == IF Truthy(x_api_key) THEN x_api_key
               ELSE IF authorization # << >>
                    THEN <<authorization[1].credentials>>
                    ELSE << >>
    IN  ~(~Truthy(key) \/ key[1] # api_key)

\* The x-api-key headers and the Authorization headers a request may carry.
XApiKeys == {<< >>, <<"">>, <<api_key>>, <<"wrong">>}

Credentials(scheme, credentials) == [scheme |-> scheme, credentials |-> credentials]

Authorizations ==
    {<< >>, <<Credentials("bearer", api_key)>>, <<Credentials("bearer", "wrong")>>,
     <<Credentials("bearer", "")>>, <<Credentials("basic", api_key)>>}

\* The endpoints declared with `_: bool = Depends(verify_api_key)`.
Protected == {"upload", "web", "list", "delete_by_id", "delete_by_filename"}

Endpoints == Protected \cup {"get"}

\* No request is waiting or being served.
NoHdr == [endpoint |-> "none", x_api_key |-> << >>, authorization |-> << >>]

\* The first step of the handler of an endpoint.
Handler(endpoint, p) ==
    CASE endpoint = "upload" -> Upload(p)
      [] endpoint = "web" -> WebUpload(p)
      [] endpoint = "list" -> ListFilesDefault(p)
      [] endpoint = "delete_by_id" -> DeleteByIdStart(p)
      [] endpoint = "delete_by_filename" -> DeleteByFilenameStart(p)
      [] endpoint = "get" -> GetLookup(p)

\* hdr holds the headers of the request in hand until its response is sent.
InHand(p) == hdr' = IF pc'[p] = "idle" THEN NoHdr ELSE hdr

\* A request arrives at an endpoint with its headers.
Request(p) ==
    /\ pc[p] = "idle"
    /\ hdr = NoHdr
    /\ \E endpoint \in Endpoints, x_api_key \in XApiKeys,
          authorization_header \in Authorizations :
         hdr' = [endpoint |-> endpoint, x_api_key |-> x_api_key,
                 authorization |-> authorization_header]
    /\ resp' = NoResp
    /\ UNCHANGED <<disk, db, uploads, clock, pc, loc>>

\* FastAPI resolves the dependencies of the endpoint and calls its handler:
\* the HTTPException of verify_api_key ends the request before the handler.
Serve(p) ==
    /\ pc[p] = "idle"
    /\ hdr # NoHdr
    /\ IF /\ hdr.endpoint \in Protected
          /\ ~verify_api_key(hdr.x_api_key, security(hdr.authorization))
       THEN /\ Reply(p, Response(hdr.endpoint, 401,
                                 "Invalid or missing API key", NoInfo))
            /\ UNCHANGED <<disk, db, uploads, clock>>
       ELSE Handler(hdr.endpoint, p)
    /\ InHand(p)

NoImg ==
    [fn |-> "none", width |-> 0, height |-> 0, mode |-> "", orientation |-> 0,
     max_width |-> 0, max_height |-> 0, preserve_alpha |-> FALSE,
     success |-> FALSE, out_width |-> 0, out_height |-> 0]

Init ==
    /\ disk = [path \in {} |-> None]
    /\ db = {}
    /\ uploads = 0
    /\ clock = 0
    /\ pc = [p \in Procs |-> "idle"]
    /\ loc = [p \in Procs |-> NoLocals]
    /\ resp = NoResp
    /\ hdr = NoHdr
    /\ img = NoImg

Next ==
    \E p \in Procs :
        \/ Upload(p) /\ UNCHANGED <<hdr, img>>
        \/ UploadRespond(p) /\ UNCHANGED <<hdr, img>>
        \/ WebUpload(p) /\ UNCHANGED <<hdr, img>>
        \/ WebFinish(p) /\ UNCHANGED <<hdr, img>>
        \/ DeleteByIdStart(p) /\ UNCHANGED <<hdr, img>>
        \/ DeleteByFilenameStart(p) /\ UNCHANGED <<hdr, img>>
        \/ DeleteRemove(p) /\ UNCHANGED <<hdr, img>>
        \/ DeleteRecord(p) /\ UNCHANGED <<hdr, img>>
        \/ GetLookup(p) /\ UNCHANGED <<hdr, img>>
        \/ GetCheck(p) /\ UNCHANGED <<hdr, img>>
        \/ GetSend(p) /\ UNCHANGED <<hdr, img>>

Spec == Init /\ [][Next]_vars

\* ---------------------------------- one client, requests with headers

Client == "c1"

\* The steps of a running handler; no request arrives.
NextAuth ==
    \/ Request(Client) /\ UNCHANGED img
    \/ Serve(Client) /\ UNCHANGED img
    \/ UploadRespond(Client) /\ InHand(Client) /\ UNCHANGED img
    \/ WebFinish(Client) /\ InHand(Client) /\ UNCHANGED img
    \/ DeleteRemove(Client) /\ InHand(Client) /\ UNCHANGED img
    \/ DeleteRecord(Client) /\ InHand(Client) /\ UNCHANGED img
    \/ GetCheck(Client) /\ InHand(Client) /\ UNCHANGED img
    \/ GetSend(Client) /\ InHand(Client) /\ UNCHANGED img

SpecAuth == Init /\ [][NextAuth]_vars

\* ------------------------------------------------- video scale filter

\* `n if n % 2 == 0 else n - 1`
Even(n) == IF n % 2 = 0 THEN n ELSE n - 1

\* optimize_video_for_web, "Resize if needed", for the probed size and the
\* box in v: the -vf scale=W:H arguments it may extend the command with,
\* or no scale filter.
scale_filter(v) ==
    LET scale_factor == Ratio(v.width, v.height, v.max_width, v.max_height)
    IN  IF v.width > 0 /\ v.height > 0 /\ scale_factor[1] < scale_factor[2]
        THEN {[v EXCEPT !.fn = "optimize_video_for_web", !.scaled = TRUE,
                        !.new_width = Even(new_width),
                        !.new_height = Even(new_height)] :
                 new_width \in IntOfProduct(v.width, scale_factor),
                 new_height \in IntOfProduct(v.height, scale_factor)}
        ELSE {[v EXCEPT !.fn = "optimize_video_for_web"]}

\* The sides ffprobe reports for the source videos.
VideoSides ==
    {1, 3, MinBox, MinBox + 61, 2 * MinBox + 1, MaxBox, 2 * MaxBox}

\* A probed video and a box, the command not yet built.
VideoInputs ==
    [fn : {"probe"}, width : VideoSides, height : VideoSides,
     max_width : BoxSides, max_height : BoxSides,
     scaled : {FALSE}, new_width : {0}, new_height : {0}]

OptimizeVideoForWeb ==
    /\ img.fn = "probe"
    /\ img' \in scale_filter(img)
    /\ UNCHANGED <<disk, db, uploads, clock, pc, loc, resp, hdr>>

\* --------------------------------------------- the image optimizers alone

InitImage ==
    /\ disk = [path \in {} |-> None]
    /\ db = {}
    /\ uploads = 0
    /\ clock = 0
    /\ pc = [p \in Procs |-> "idle"]
    /\ loc = [p \in Procs |-> NoLocals]
    /\ resp = NoResp
    /\ hdr = NoHdr
    /\ img \in ImageInputs

NextImage == OptimizeImageForWeb \/ OptimizeForWeb

SpecImage == InitImage /\ [][NextImage]_vars

\* ------------------------------------------- the video scale filter alone

InitVideo ==
    /\ disk = [path \in {} |-> None]
    /\ db = {}
    /\ uploads = 0
    /\ clock = 0
    /\ pc = [p \in Procs |-> "idle"]
    /\ loc = [p \in Procs |-> NoLocals]
    /\ resp = NoResp
    /\ hdr = NoHdr
    /\ img \in VideoInputs

NextVideo == OptimizeVideoForWeb

SpecVideo == InitVideo /\ [][NextVideo]_vars

\* ------------------------------------------- the crud operations alone

\* The optimized_path arguments (Optional[str]) the crud operations are
\* called with.
OptimizedPaths == {None, "web.jpg"}

\* create_file_record called with the fields of an upload, an is_optimized
\* among `flags` and an optimized_path among `paths`; created_at is
\* datetime.utcnow(), which may or may not have advanced since the last row.
CrudCreateWith(flags, paths) ==
    /\ uploads < MaxRecords
    /\ \E q \in Parts, tick \in {0, 1}, is_optimized \in flags,
          optimized_path \in paths :
         LET name == generate_unique_filename(q.filename, uuid4(uploads + 1, "name"))
             file_type == get_file_type_from_mime(q.content_type)
             record == FileRecord(uuid4(uploads + 1, "id"), name, q.filename,
                                  file_type, q.content_type, q.content.len,
                                  create_file_path(upload_directory, file_type, name),
                                  is_optimized, optimized_path, clock + tick)
         IN  /\ db' = create_file_record(db, record)
             /\ clock' = clock + tick
    /\ uploads' = uploads + 1
    /\ resp' = NoResp
    /\ loc' = [loc EXCEPT ![Client] = NoLocals]
    /\ UNCHANGED <<disk, pc, hdr, img>>

\* create_file_record called as the upload handlers call it: is_optimized
\* and optimized_path left at their defaults.
CrudCreate == CrudCreateWith({FALSE}, {None})

\* create_file_record called with any is_optimized and optimized_path.
CrudCreateAny == CrudCreateWith(BOOLEAN, OptimizedPaths)

\* update_file_optimization called with the id of a row or with an unknown
\* id, and an optimized_path (a str).
CrudUpdate ==
    /\ \E file_id \in {r.id : r \in db} \cup {uuid4(0, "id")},
          optimized_path \in OptimizedPaths \ {None} :
         /\ db' = update_file_optimization(db, file_id, optimized_path)
         /\ resp' = Response("update_file_optimization",
                             IF file_id \in {r.id : r \in db} THEN 200 ELSE 404,
                             "", NoInfo)
    /\ loc' = [loc EXCEPT ![Client] = NoLocals]
    /\ UNCHANGED <<disk, uploads, clock, pc, hdr, img>>

\* delete_file_record called with the id of a row or with an unknown id.
CrudDelete ==
    /\ \E file_id \in {r.id : r \in db} \cup {uuid4(0, "id")} :
         LET deleted == delete_file_record(db, file_id)
         IN  /\ db' = deleted.table
             /\ resp' = Response("delete_file_record", IF deleted.ok THEN 200 ELSE 404,
                                 "", NoInfo)
    /\ loc' = [loc EXCEPT ![Client] = NoLocals]
    /\ UNCHANGED <<disk, uploads, clock, pc, hdr, img>>

\* get_files_paginated called as list_files calls it.
CrudList == ListFiles(Client) /\ UNCHANGED <<hdr, img>>

NextCrud == CrudCreate \/ CrudDelete \/ CrudList

SpecCrud == Init /\ [][NextCrud]_vars

\* ------------------------------ the metadata store under any arguments

NextStore == CrudCreateAny \/ CrudUpdate \/ CrudDelete

SpecStore == Init /\ [][NextStore]_vars

\* ------------------------------------------------ concurrent uploads alone

\* The upload endpoints alone, called by both clients with the files the
\* multipart parser hands over.

NextUploads ==
    \E p \in Procs :
        \/ UploadWithin(p, SizedUploadFiles, MaxRacing) /\ UNCHANGED <<hdr, img>>
        \/ UploadRespond(p) /\ UNCHANGED <<hdr, img>>
        \/ WebUploadWithin(p, SizedUploadFiles, MaxRacing) /\ UNCHANGED <<hdr, img>>
        \/ WebFinish(p) /\ UNCHANGED <<hdr, img>>

SpecUploads == Init /\ [][NextUploads]_vars

\* ------------------------------------------------------------ properties

\* No request is in flight.
Quiescent == \A p \in Procs : pc[p] = "idle"

\* The files on disk under either name of an upload.
FilesOf(d, unique_filename) ==
    {path \in DOMAIN d : path[3] \in {unique_filename, WebName(unique_filename)}}

\* The part a record was uploaded from.
PartOf(r) == CHOOSE q \in Parts : q.filename = r.original_filename

OversizeParts == {q \in Parts : q.content.len > MaxBytes}

\* The upload that generated `filename` still runs.
Uploading(filename) ==
    \E p \in Procs : /\ pc[p] \in {"upload_respond", "web_finish"}
                     /\ loc[p].unique_filename = filename

\* A delete of the record named `filename` runs.
Deleting(filename) ==
    \E p \in Procs : /\ pc[p] \in {"delete_remove", "delete_record"}
                     /\ loc[p].file_record.filename = filename

DeleteOps == {"delete_by_id", "delete_by_filename"}

\* The record was made from content within the size limit.
WithinLimit(r) == PartOf(r).content.len <= MaxBytes

\* C1: whenever no request is in flight, after any sequence of uploads and
\* deletes, failed ones included, every persisted FileRecord's file_path
\* names a file that exists on disk (stated for the records of uploads
\* within the size limit).
C1_EveryRecordHasItsFile ==
    Quiescent => \A r \in db : WithinLimit(r) => Exists(disk, r.file_path)

\* C2: when an upload ends with the error of a failed open, write or commit
\* and no removal of the rollback raised, no file the attempt wrote is left:
\* neither at the generated path nor at the web_ path.
C2_FailedUploadLeavesNoFile ==
    ( /\ resp.op \in {"upload", "web"}
      /\ resp.status = 500
      /\ resp.info.cause \in {"open", "write", "commit"}
      /\ ~resp.info.rollback_raised )
    => FilesOf(disk, resp.info.filename) = {}

DeleteSucceeded(r) == r.op \in DeleteOps /\ r.status = 200

\* `filename` was generated by an upload and names no record: its record was
\* deleted or its upload failed.
Gone(filename) ==
    /\ \E n \in 1..uploads : filename.uuid = uuid4(n, "name")
    /\ filename \notin {r.filename : r \in db}

\* C4 as stated: after a DELETE of an existing record returns success,
\* neither the record nor the file at its file_path exists.
C4_DeleteRemovesRecordAndFile ==
    (DeleteSucceeded(resp) /\ resp.info.file_size <= MaxBytes) =>
        /\ resp.info.file_id \notin {r.id : r \in db}
        /\ ~Exists(disk, resp.info.file_path)

\* C4 amended: after a DELETE of an existing record returns success the
\* record does not exist, and the file at its file_path does not exist
\* unless its removal raised (the error is swallowed); a filename without a
\* record never gets one again, a GET that starts while the filename has no
\* record does not get past the lookup, and a GET that does not get past the
\* lookup is answered 404.
C4_DeleteThenNotFound ==
    [][ /\ DeleteSucceeded(resp') =>
              /\ resp'.info.file_id \notin {r.id : r \in db'}
              /\ resp'.info.filename \notin {r.filename : r \in db'}
              /\ ~resp'.info.remove_raised =>
                    resp'.info.file_path \notin DOMAIN disk'
        /\ \A r \in db' : ~Gone(r.filename)
        /\ \A p \in Procs :
              (pc[p] = "idle" /\ pc'[p] = "get_check")
              => ~Gone(loc'[p].file_record.filename)
        /\ (pc' = pc /\ resp'.op = "get") => resp'.status = 404
      ]_vars

\* A DELETE of a record whose file was on disk returned success, the file's
\* removal having succeeded.
C4_Witness ==
    /\ DeleteSucceeded(resp)
    /\ ~resp.info.remove_raised
    /\ Gone(resp.info.filename)

\* The bytes GET must serve for record r: the uploaded bytes when file_path
\* is the original's path, the optimizer's output for them otherwise.
Authoritative(r, body) ==
    /\ body.source = PartOf(r).content.source
    /\ IF r.file_path[3].prefix = "" THEN body = PartOf(r).content
       ELSE body.kind \in {"jpeg", "mp4", "raw"}

Undisturbed(p) ==
    /\ loc[p].unique_filename \in {r.filename : r \in db}
    /\ ~Deleting(loc[p].unique_filename)

\* C6: on POST /upload/web, when the optimizer reported failure (and the
\* record was committed), the request ends with the success response whose
\* message says the optimization failed, the record points at the original
\* with the original's byte length, and the original is on disk.
C6_FailedOptimizationKeepsUpload ==
    [][ \A p \in Procs :
          ( /\ pc[p] = "web_finish"
            /\ ~loc[p].success
            /\ loc[p].content.len <= MaxBytes
            /\ Undisturbed(p)
            /\ pc'[p] = "idle" )
          => /\ resp'.status = 200
             /\ resp'.detail = "File uploaded (optimization failed)"
             /\ \E r \in db' :
                   /\ r.filename = loc[p].unique_filename
                   /\ r.file_path = OriginalPath(loc[p])
                   /\ r.file_size = loc[p].content.len
             /\ Exists(disk', OriginalPath(loc[p]))
      ]_vars

\* C7: on POST /upload/web of a video when the ffmpeg probe fails (and the
\* copy and the commit succeed), the request ends with the stored file a
\* byte-for-byte copy of the upload, a record with is_optimized = false and
\* the uploaded byte length, and a result that reports the skipped
\* optimization.
C7_NoFfmpegCopiesVideo ==
    [][ \A p \in Procs :
          ( /\ pc[p] = "web_finish"
            /\ loc[p].error_msg = FFmpegNotAvailable
            /\ Undisturbed(p)
            /\ pc'[p] = "idle" )
          => /\ resp'.status = 200
             /\ resp'.detail = FFmpegNotAvailable
             /\ \E r \in db' :
                   /\ r.filename = loc[p].unique_filename
                   /\ ~r.is_optimized
                   /\ r.file_size = loc[p].content.len
                   /\ Exists(disk', r.file_path)
                   /\ disk'[r.file_path] = loc[p].content
      ]_vars

\* The request presents the configured key in x-api-key or as bearer token.
PresentsKey(h) ==
    \/ h.x_api_key = <<api_key>>
    \/ /\ h.authorization # << >>
       /\ h.authorization[1].scheme = "bearer"
       /\ h.authorization[1].credentials = api_key

\* The key the request presents is the configured one: the x-api-key header
\* when it is there and not empty, the bearer token otherwise.
PresentedKeyMatches(h) ==
    IF h.x_api_key # << >> /\ h.x_api_key[1] # ""
    THEN h.x_api_key[1] = api_key
    ELSE /\ h.authorization # << >>
         /\ h.authorization[1].scheme = "bearer"
         /\ h.authorization[1].credentials = api_key

\* A request has arrived and its dependencies are about to be resolved.
Arrived == hdr # NoHdr /\ pc[Client] = "idle"

\* C8 as stated: a request to a protected endpoint is accepted exactly when
\* it presents the configured key in x-api-key or as a bearer token; a
\* rejected request gets 401 and changes no record and no file; GET
\* /files/{filename} is never rejected for its key.
C8_AcceptedIffKeyPresented ==
    [][ Arrived =>
          /\ hdr.endpoint \in Protected =>
                (resp'.status # 401 <=> PresentsKey(hdr))
          /\ hdr.endpoint = "get" => resp'.status # 401
          /\ resp'.status = 401 => (db' = db /\ disk' = disk)
      ]_vars

\* C8 amended: a request to a protected endpoint is accepted exactly when
\* the key it presents is the configured one, the key presented being the
\* x-api-key header when that is present and not empty and the bearer token
\* otherwise; every other request gets 401 and changes no record and no
\* file; GET /files/{filename} needs no key.
C8_AcceptedIffPresentedKeyMatches ==
    [][ Arrived =>
          /\ hdr.endpoint \in Protected =>
                (resp'.status # 401 <=> PresentedKeyMatches(hdr))
          /\ hdr.endpoint = "get" => resp'.status # 401
          /\ resp'.status = 401 =>
                (db' = db /\ disk' = disk /\ uploads' = uploads /\ pc' = pc)
      ]_vars

\* A DELETE carrying only the bearer token was accepted and runs, and a
\* record and its file are there for it to change.
C8_Witness ==
    /\ hdr.endpoint = "delete_by_id"
    /\ hdr.x_api_key = << >>
    /\ PresentsKey(hdr)
    /\ pc[Client] = "delete_remove"
    /\ db # {}

\* The records a GET /list with the arguments q is about.
MatchingRecords(q) ==
    {r \in db : q.file_type = None \/ r.file_type = q.file_type}

\* C9: for every set of records, type filter, page >= 1 and per_page in
\* 1..100, get_files_paginated returns total equal to the number of records
\* matching the filter, at most per_page items, each of them a matching
\* record, and no item, with the same total, when (page - 1) * per_page is
\* at least the number of matching records.
C9_Pagination ==
    resp.op = "list" =>
        LET q == resp.info.query
            r == resp.info.body
        IN  /\ r.total = Cardinality(MatchingRecords(q))
            /\ Len(r.files) <= q.per_page
            /\ \A i \in 1..Len(r.files) :
                  \E m \in MatchingRecords(q) : FileResponse(m) = r.files[i]
            /\ (q.page - 1) * q.per_page >= Cardinality(MatchingRecords(q))
               => Len(r.files) = 0

\* A page beyond the last one of a filtered listing with two matching
\* records was asked for.
C9_Witness ==
    /\ resp.op = "list"
    /\ resp.info.query.file_type # None
    /\ resp.info.query.page > 1
    /\ resp.info.body.total >= 2
    /\ Len(resp.info.body.files) = 0

Max(a, b) == IF a >= b THEN a ELSE b

\* |out - side * factor| <= 1, the factor being the fraction f.
WithinOnePixel(out, side, f) ==
    /\ out * f[2] - side * f[1] <= f[2]
    /\ side * f[1] - out * f[2] <= f[2]

\* min(maxW / origW, maxH / origH) as a fraction.
ScaleFactor(i) ==
    IF i.max_width * i.height <= i.max_height * i.width
    THEN <<i.max_width, i.width>>
    ELSE <<i.max_height, i.height>>

\* The scale factor clamped to at most 1.
ClampedFactor(i) ==
    IF ScaleFactor(i)[1] < ScaleFactor(i)[2] THEN ScaleFactor(i) ELSE <<1, 1>>

\* An optimizer has answered success for the image in img.
Optimized == img.fn \in {"optimize_image_for_web", "optimize_for_web"} /\ img.success

\* C10 as stated: a successful image optimization produces (outW, outH)
\* with max(outW, outH) <= max(maxW, maxH), outW within 1 pixel of origW *
\* min(maxW / origW, maxH / origH) and outH within 1 pixel of origH times
\* the same factor.
C10_ScaledByMinFactor ==
    Optimized =>
        /\ Max(img.out_width, img.out_height) <= Max(img.max_width, img.max_height)
        /\ WithinOnePixel(img.out_width, img.width, ScaleFactor(img))
        /\ WithinOnePixel(img.out_height, img.height, ScaleFactor(img))

\* C10 amended: a successful image optimization produces (outW, outH) with
\* max(outW, outH) <= max(maxW, maxH), obtained by scaling both sides by the
\* same factor min(1, maxW / origW, maxH / origH), each within 1 pixel of
\* the exactly proportional value; when the image carries an orientation
\* that exchanges the sides, outW and outH may be the scaled height and the
\* scaled width.
C10_ScaledByClampedFactor ==
    Optimized =>
        /\ Max(img.out_width, img.out_height) <= Max(img.max_width, img.max_height)
        /\ \/ /\ WithinOnePixel(img.out_width, img.width, ClampedFactor(img))
              /\ WithinOnePixel(img.out_height, img.height, ClampedFactor(img))
           \/ /\ img.orientation \in ExchangingOrientations
              /\ WithinOnePixel(img.out_height, img.width, ClampedFactor(img))
              /\ WithinOnePixel(img.out_width, img.height, ClampedFactor(img))

\* An image larger than its box, with sides that differ, was scaled down by
\* optimize_image_for_web.
C10_Witness ==
    /\ Optimized
    /\ img.fn = "optimize_image_for_web"
    /\ img.width > img.max_width
    /\ img.height > img.max_height
    /\ img.out_width < img.out_height
    /\ img.out_height <= img.max_height

\* The source image fits in the bounding box.
FitsBox(i) == i.width <= i.max_width /\ i.height <= i.max_height

\* The output is the size <<w, h>> when that fits the box, and never larger
\* than it on either side.
NotUpscaledFrom(i, w, h) ==
    /\ (w <= i.max_width /\ h <= i.max_height)
       => (i.out_width = w /\ i.out_height = h)
    /\ i.out_width <= w
    /\ i.out_height <= h

\* C11 as stated: image optimization never upscales: for a source with
\* origW <= maxW and origH <= maxH the output dimensions equal the input
\* dimensions, and in every case outW <= origW and outH <= origH.
C11_NeverUpscales ==
    Optimized => NotUpscaledFrom(img, img.width, img.height)

\* C11 amended: image optimization never upscales: a source that fits the
\* box keeps its dimensions and in every case each output side is at most
\* the source's, where for an image whose orientation exchanges the sides
\* the output may be compared with the source's height and width instead.
C11_NeverUpscalesUpToOrientation ==
    Optimized =>
        \/ NotUpscaledFrom(img, img.width, img.height)
        \/ /\ img.orientation \in ExchangingOrientations
           /\ FitsBox(img) => (img.out_width = img.height /\ img.out_height = img.width)
           /\ img.out_width <= img.height
           /\ img.out_height <= img.width

\* optimize_image_for_web answered for an image smaller than its box on both
\* sides, and the output has the input's dimensions.
C11_Witness ==
    /\ Optimized
    /\ img.fn = "optimize_image_for_web"
    /\ img.width < img.max_width
    /\ img.height < img.max_height
    /\ img.width # img.height
    /\ img.out_width = img.width
    /\ img.out_height = img.height

\* C12: in every state of the metadata store, after any sequence of
\* create_file_record, update_file_optimization and delete_file_record calls
\* with any arguments, every FileRecord with is_optimized = true has a
\* non-null optimized_path.
C12_OptimizedHasPath ==
    \A r \in db : r.is_optimized => r.optimized_path # None

\* The records with the given filename.
RecordsNamed(table, filename) == {r \in table : r.filename = filename}

\* The response ends an upload request that passed validation (no 400, no
\* 413) and whose content is within the size limit.
EndsUpload(r, table) ==
    /\ r.op \in {"upload", "web"}
    /\ r.status \notin {400, 413}
    /\ \A rec \in RecordsNamed(table, r.info.filename) : WithinLimit(rec)

\* C13: every upload request that passes validation ends either with
\* exactly one new FileRecord persisted and a success response, or with no
\* new FileRecord and an error response; no request returns an error while
\* its record is persisted, and a record is never persisted before the
\* original bytes have been written.
C13_CreatedOrRolledBack ==
    [][ /\ EndsUpload(resp', db') =>
              \/ /\ resp'.status = 200
                 /\ Cardinality(RecordsNamed(db', resp'.info.filename)) = 1
              \/ /\ resp'.status = 500
                 /\ RecordsNamed(db', resp'.info.filename) = {}
        /\ \A r \in db' \ db :
              Exists(disk', create_file_path(upload_directory, r.file_type,
                                             r.filename))
      ]_vars

\* Client q's DELETE of the record client p's GET is about to send has got
\* past the removal of the file without an error.
RemovedUnder(p, q) ==
    /\ pc[p] = "get_send"
    /\ pc[q] = "delete_record"
    /\ loc[q].file_record.id = loc[p].file_record.id
    /\ ~loc[q].remove_raised
    /\ WithinLimit(loc[p].file_record)

\* C14: when a DELETE removes a record's file while a GET /files/{filename}
\* for the same record runs, the file being removed after the GET's
\* existence check and before the file is opened included, the GET serves
\* the complete file or returns not-found, never a server error.
C14_GetServesOrNotFound ==
    [][ \A p \in Procs, q \in Procs :
          (RemovedUnder(p, q) /\ pc'[p] = "idle")
          => \/ resp'.status = 404
             \/ /\ resp'.status = 200
                /\ resp'.info.body.kind # "partial"
      ]_vars

\* Client p runs an upload that has written its files.
Writing(p) == pc[p] \in {"upload_respond", "web_finish"}

\* The paths the upload request of client p writes: its original path and
\* its web_-prefixed optimized path.
PathsOf(p) == {OriginalPath(loc[p]), WebPath(loc[p])}

\* C15: for concurrent uploads in any interleaving, with tokens fresh per
\* request, no two requests write the same path (neither the original path
\* nor the web_ path of one request is a path of another), and no two
\* FileRecords share a filename.
C15_UploadsNeverCollide ==
    /\ \A p \in Procs, q \in Procs :
          (p # q /\ Writing(p) /\ Writing(q)) => PathsOf(p) \cap PathsOf(q) = {}
    /\ \A p \in Procs : \A r \in db :
          (Writing(p) /\ r.filename # loc[p].unique_filename)
          => r.file_path \notin PathsOf(p)
    /\ \A r1 \in db, r2 \in db : r1.filename = r2.filename => r1 = r2

\* Two uploads of files with the same name and type are in flight at once,
\* one through each endpoint, both having written their files.
C15_Witness ==
    /\ pc["c1"] = "upload_respond"
    /\ pc["c2"] = "web_finish"
    /\ loc["c1"].filename = loc["c2"].filename
    /\ Cardinality(db) = 2
    /\ Cardinality(DOMAIN disk) >= 2

\* C16: in DELETE by id and DELETE by filename, when removing the backing
\* file raises, the error is swallowed (the handler goes on to delete the
\* record whatever the removal did), the FileRecord is deleted and the
\* request returns success, the file being the only thing left; stated for
\* the requests whose record is still there when they delete it and whose
\* database commit does not fail.
C16_RemoveErrorSwallowed ==
    [][ \A p \in Procs :
          /\ (pc[p] = "delete_remove" /\ pc'[p] # "delete_remove")
             => pc'[p] = "delete_record"
          /\ ( /\ pc[p] = "delete_record"
               /\ pc'[p] = "idle"
               /\ loc[p].remove_raised
               /\ loc[p].file_record \in db
               /\ resp'.detail # "Internal Server Error" )
             => /\ resp'.op \in DeleteOps
                /\ resp'.status = 200
                /\ db' = db \ {loc[p].file_record}
                /\ disk' = disk
      ]_vars

\* A DELETE whose removal of the file raised has returned success: the
\* record is gone and the file is still on disk.
C16_Witness ==
    /\ DeleteSucceeded(resp)
    /\ resp.info.remove_raised
    /\ resp.info.file_id \notin {r.id : r \in db}
    /\ Exists(disk, resp.info.file_path)

\* An upload ended in its except clause and a removal of the rollback
\* raised (stated for content within the size limit).
RollbackRaised(r) ==
    /\ r.op \in {"upload", "web"}
    /\ r.status = 500
    /\ r.info.rollback_raised
    /\ \A path \in FilesOf(disk, r.info.filename) :
          disk[path].source \notin {q.content.source : q \in OversizeParts}

\* C17: during the rollback of a failed upload, when deleting one of the
\* written files fails, the failure is not escalated: every remaining
\* written file is still deleted (at most the file whose removal failed is
\* left) and the request surfaces the original error as the 500 'Upload
\* failed' response.
C17_RollbackFailureNotEscalated ==
    RollbackRaised(resp) =>
        /\ resp.detail = "Upload failed"
        /\ Cardinality(FilesOf(disk, resp.info.filename)) <= 1

\* C18: in optimize_video_for_web, for every probed size (w, h) with w, h >=
\* 1 and every maxW, maxH in 100..4000, a scale filter is emitted exactly
\* when min(maxW / w, maxH / h) < 1, and then the target width and height
\* are both even, both at least 2, at most maxW and maxH, and at most w and
\* h.
C18_EvenScaleWithinBox ==
    img.fn = "optimize_video_for_web" =>
        /\ img.scaled <=> ScaleFactor(img)[1] < ScaleFactor(img)[2]
        /\ img.scaled =>
              /\ img.new_width % 2 = 0
              /\ img.new_height % 2 = 0
              /\ img.new_width >= 2
              /\ img.new_height >= 2
              /\ img.new_width <= img.max_width
              /\ img.new_height <= img.max_height
              /\ img.new_width <= img.width
              /\ img.new_height <= img.height

\* The files the request of p wrote that are on the disk d.
WrittenBy(p, d) == {OriginalPath(loc[p]), WebPath(loc[p])} \cap DOMAIN d

C20_SecondDeleteNotFound ==
    [][ \A p \in Procs :
          ( /\ pc[p] = "delete_record"
            /\ loc[p].file_record \notin db
            /\ PartSize(loc[p].file_record) <= MaxBytes
            /\ pc'[p] = "idle" )
          => /\ resp'.status = 404
             /\ resp'.detail # "Failed to delete file from database"
             /\ loc[p].file_record \notin db'
      ]_vars

=============================================================================
